---- MODULE Spec2Model ----
(***************************************************************************)
(* A model of TkZero's Keybind string generators (TkZero/Keybind.py) and   *)
(* of its Listbox wrapper (TkZero/Listbox.py).                             *)
(*                                                                         *)
(* Python strings are sequences of one-character strings, so that          *)
(* concatenation, the substring test, str.replace and indexing are         *)
(* computed and not assumed.  Python values whose type matters carry a tag *)
(* as their first component.                                               *)
(***************************************************************************)
EXTENDS Integers, Sequences, FiniteSets, TLC

(***************************************************************************)
(* Bounds of the model.                                                    *)
(***************************************************************************)
\* longest `letter` argument given to the Keybind functions
MaxLetterLen == 2
\* longest list given to (or grown inside) the Listbox
MaxLen == 2
\* longest tuple assigned to Listbox.selected
MaxSel == 2

VARIABLES
    \* ---- Keybind: one call of one of the two generators
    fn,            \* "none", "generate_event_sequence", "generate_accelerator_sequence"
    aqua,          \* Platform.on_aqua(widget)
    illTyped,      \* the first argument that fails its isinstance check, or "none"
    ctrl_cmd, ctrl_ctrl, shift_shift, alt_option,
    letter,        \* the letter argument, a string
    result,        \* [kind |-> "none" | "ok" | an exception name, value |-> string]
    \* ---- Listbox: the wrapper object and the toolkit widget under it
    phase,         \* "new": no Listbox constructed yet; "live": constructed
    _values,       \* self._values: a list of Python values
    _variable,     \* self._variable: the toolkit's list variable
    selection,     \* the toolkit widget's set of selected indices
    _enabled,      \* self._enabled
    state,         \* the toolkit widget's state option
    selectmode,    \* the toolkit widget's selectmode option
    aliased,       \* the caller holds a reference to the list object self._values
    call,          \* the last operation called and its arguments
    err,           \* how the last operation ended: "none" or an exception name
    seeArg,        \* the indices the last operation passed to the toolkit's see()
    lastBool       \* history: the last bool assigned to enabled (TRUE if none)

kbVars == <<fn, aqua, illTyped, ctrl_cmd, ctrl_ctrl, shift_shift, alt_option, letter, result>>
lbVars == <<phase, _values, _variable, selection, _enabled, state, selectmode, aliased,
            call, err, seeArg, lastBool>>
vars == <<kbVars, lbVars>>

(***************************************************************************)
(* Strings.                                                                *)
(***************************************************************************)
Chars == {"s", "S", "-", "+"}

\* str.upper() and str.lower() on one character
Upper(c) == IF c = "s" THEN "S" ELSE c
Lower(c) == IF c = "S" THEN "s" ELSE c

\* `sub in s` for Python strings
Contains(sub, s) ==
    \E i \in 0..(Len(s) - Len(sub)) : SubSeq(s, i + 1, i + Len(sub)) = sub

\* s.count(sub) for a sub that cannot overlap itself
CountOcc(sub, s) ==
    Cardinality({i \in 0..(Len(s) - Len(sub)) : SubSeq(s, i + 1, i + Len(sub)) = sub})

\* s.replace(a, b) for one-character a and b
Replace(s, a, b) == [i \in 1..Len(s) |-> IF s[i] = a THEN b ELSE s[i]]

Last(s) == s[Len(s)]

StrCommand == <<"C", "o", "m", "m", "a", "n", "d">>
StrControl == <<"C", "o", "n", "t", "r", "o", "l">>
StrOption  == <<"O", "p", "t", "i", "o", "n">>
StrAlt     == <<"A", "l", "t">>
StrShift   == <<"S", "h", "i", "f", "t">>
Hyphen     == <<"-">>

Ok(s) == [kind |-> "ok", value |-> s]
Raise(e) == [kind |-> e, value |-> <<>>]

Letters == UNION {[1..n -> Chars] : n \in 0..MaxLetterLen}
ArgNames == {"widget", "ctrl_cmd", "ctrl_ctrl", "shift_shift", "alt_option", "letter"}
(***************************************************************************)
(* Keybind.py                                                              *)
(***************************************************************************)
\* A variant of EventSequence that appends "Control-" for ctrl_ctrl without
\* looking for one already there (line 73 without its `not in` test).
EventSequenceNoDedup(onAqua, cc, ctl, sh, alt, l) ==
    LET s0 == <<"<">>
        s1 == IF onAqua
              THEN (IF cc THEN s0 \o StrCommand \o Hyphen ELSE s0)
              ELSE (IF cc THEN s0 \o StrControl \o Hyphen ELSE s0)
        s2 == IF onAqua
              THEN (IF alt THEN s1 \o StrOption \o Hyphen ELSE s1)
              ELSE (IF alt THEN s1 \o StrAlt \o Hyphen ELSE s1)
        s3 == IF ctl THEN s2 \o StrControl \o Hyphen ELSE s2
        s4 == IF sh THEN s3 \o StrShift \o Hyphen ELSE s3
    IN  IF Len(l) = 0
        THEN Raise("IndexError")
        ELSE Ok(s4 \o <<IF sh THEN Upper(l[1]) ELSE Lower(l[1])>> \o <<">">>)

\* generate_event_sequence after its type checks (Keybind.py lines 62-79)
EventSequence(onAqua, cc, ctl, sh, alt, l) ==
    LET s0 == <<"<">>
        s1 == IF onAqua
              THEN (IF cc THEN s0 \o StrCommand \o Hyphen ELSE s0)
              ELSE (IF cc THEN s0 \o StrControl \o Hyphen ELSE s0)
        s2 == IF onAqua
              THEN (IF alt THEN s1 \o StrOption \o Hyphen ELSE s1)
              ELSE (IF alt THEN s1 \o StrAlt \o Hyphen ELSE s1)
        s3 == IF ctl /\ ~Contains(StrControl \o Hyphen, s2)
              THEN s2 \o StrControl \o Hyphen
              ELSE s2
        s4 == IF sh THEN s3 \o StrShift \o Hyphen ELSE s3
    IN  IF Len(l) = 0
        THEN Raise("IndexError")
        ELSE Ok(s4 \o <<IF sh THEN Upper(l[1]) ELSE Lower(l[1])>> \o <<">">>)

\* A variant of AcceleratorSequence that never asks the platform for the names:
\* ctrl_cmd is always "Control" and alt_option always "Alt".
AcceleratorSequenceNoPlatform(onAqua, cc, ctl, sh, alt, l) ==
    LET s1 == IF cc THEN StrControl \o Hyphen ELSE <<>>
        dup == ctl /\ Contains(StrControl \o Hyphen, s1) /\ ~onAqua
        s2 == IF ctl THEN s1 \o StrControl \o Hyphen ELSE s1
        s3 == IF sh THEN s2 \o StrShift \o Hyphen ELSE s2
        s4 == IF alt THEN s3 \o StrAlt \o Hyphen ELSE s3
    IN  IF dup THEN Raise("ValueError")
        ELSE IF Len(l) = 0 THEN Raise("IndexError")
        ELSE LET s5 == s4 \o <<Upper(l[1])>>
             IN  Ok(IF ~onAqua THEN Replace(s5, "-", "+") ELSE s5)

\* A variant of AcceleratorSequence that drops a second "Control-" the way
\* generate_event_sequence does, and never raises ValueError.
AcceleratorSequenceNoRaise(onAqua, cc, ctl, sh, alt, l) ==
    LET s1 == IF cc
              THEN (IF onAqua THEN StrCommand \o Hyphen ELSE StrControl \o Hyphen)
              ELSE <<>>
        s2 == IF ctl /\ ~Contains(StrControl \o Hyphen, s1)
              THEN s1 \o StrControl \o Hyphen
              ELSE s1
        s3 == IF sh THEN s2 \o StrShift \o Hyphen ELSE s2
        s4 == IF alt
              THEN (IF onAqua THEN s3 \o StrOption \o Hyphen ELSE s3 \o StrAlt \o Hyphen)
              ELSE s3
    IN  IF Len(l) = 0 THEN Raise("IndexError")
        ELSE LET s5 == s4 \o <<Upper(l[1])>>
             IN  Ok(IF ~onAqua THEN Replace(s5, "-", "+") ELSE s5)

\* generate_accelerator_sequence after its type checks (Keybind.py lines 131-148)
AcceleratorSequence(onAqua, cc, ctl, sh, alt, l) ==
    LET s1 == IF cc
              THEN (IF onAqua THEN StrCommand \o Hyphen ELSE StrControl \o Hyphen)
              ELSE <<>>
        dup == ctl /\ Contains(StrControl \o Hyphen, s1)
        s2 == IF ctl THEN s1 \o StrControl \o Hyphen ELSE s1
        s3 == IF sh THEN s2 \o StrShift \o Hyphen ELSE s2
        s4 == IF alt
              THEN (IF onAqua THEN s3 \o StrOption \o Hyphen ELSE s3 \o StrAlt \o Hyphen)
              ELSE s3
    IN  IF dup THEN Raise("ValueError")
        ELSE IF Len(l) = 0 THEN Raise("IndexError")
        ELSE LET s5 == s4 \o <<Upper(l[1])>>
             IN  Ok(IF ~onAqua THEN Replace(s5, "-", "+") ELSE s5)

\* the isinstance checks both functions start with (Keybind.py lines 38-61, 107-130)
TypeChecked(r) == IF illTyped # "none" THEN Raise("TypeError") ELSE r

generate_event_sequence ==
    /\ fn = "none"
    /\ fn' = "generate_event_sequence"
    /\ result' = TypeChecked(EventSequence(aqua, ctrl_cmd, ctrl_ctrl, shift_shift,
                                           alt_option, letter))
    /\ UNCHANGED <<aqua, illTyped, ctrl_cmd, ctrl_ctrl, shift_shift, alt_option, letter>>
    /\ UNCHANGED lbVars

generate_accelerator_sequence ==
    /\ fn = "none"
    /\ fn' = "generate_accelerator_sequence"
    /\ result' = TypeChecked(AcceleratorSequence(aqua, ctrl_cmd, ctrl_ctrl, shift_shift,
                                                 alt_option, letter))
    /\ UNCHANGED <<aqua, illTyped, ctrl_cmd, ctrl_ctrl, shift_shift, alt_option, letter>>
    /\ UNCHANGED lbVars

(***************************************************************************)
(* The state before any Listbox is constructed and before any call.        *)
(***************************************************************************)
NoCall == [op |-> "none"]

ListboxInit ==
    /\ phase = "new"
    /\ _values = <<>>
    /\ _variable = <<>>
    /\ selection = {}
    /\ _enabled = TRUE
    /\ state = "normal"
    /\ selectmode = "browse"
    /\ aliased = FALSE
    /\ call = NoCall
    /\ err = "none"
    /\ seeArg = {}
    /\ lastBool = TRUE

KeybindIdle ==
    /\ fn = "none"
    /\ aqua = FALSE
    /\ illTyped = "none"
    /\ ctrl_cmd = FALSE
    /\ ctrl_ctrl = FALSE
    /\ shift_shift = FALSE
    /\ alt_option = FALSE
    /\ letter = <<>>
    /\ result = [kind |-> "none", value |-> <<>>]

\* the arguments of one Keybind call: every platform, flag combination and letter
KeybindInit ==
    /\ fn = "none"
    /\ aqua \in BOOLEAN
    /\ illTyped \in ArgNames \cup {"none"}
    /\ ctrl_cmd \in BOOLEAN
    /\ ctrl_ctrl \in BOOLEAN
    /\ shift_shift \in BOOLEAN
    /\ alt_option \in BOOLEAN
    /\ letter \in Letters
    /\ illTyped # "none" =>
           ~ctrl_cmd /\ ~ctrl_ctrl /\ ~shift_shift /\ ~alt_option /\ letter = <<>>
    /\ result = [kind |-> "none", value |-> <<>>]
    /\ ListboxInit

KeybindNext == generate_event_sequence \/ generate_accelerator_sequence

KeybindSpec == KeybindInit /\ [][KeybindNext]_vars
(***************************************************************************)
(* Listbox.py: Python values.  A value is <<type tag, payload>>.           *)
(***************************************************************************)
\* the items a caller puts in a list: an int and a str
Items == {<<"int", "1">>, <<"str", "a">>}
PyLists == UNION {[1..n -> Items] : n \in 0..MaxLen}

\* str(item)
Str(item) == <<"str", item[2]>>

\* [str(item) for item in values]
StrList(l) == [i \in 1..Len(l) |-> Str(l[i])]

\* the Tcl list a Python list is stored as in the toolkit's list variable
TclList(l) == [i \in 1..Len(l) |-> l[i][2]]

None == <<"None", <<>>>>
NotAList == <<"other", <<>>>>
ListArgs == {<<"list", l>> : l \in PyLists}

\* ints given as indices (MaxLen is past the end of every list), and an object
\* that is no index
IndexInts == {<<"int", i>> : i \in -1..MaxLen}
NotAnIndex == <<"obj", 0>>
\* elements of a selection tuple
TupleItems == {<<"int", i>> : i \in 0..MaxLen} \cup {NotAnIndex}
PyTuples == UNION {[1..n -> TupleItems] : n \in 0..MaxSel}
NotATuple == <<"other", <<>>>>
TupleArgs == {<<"tuple", t>> : t \in PyTuples}

BoolArgs == {<<"bool", b>> : b \in BOOLEAN}
NotABool == <<"obj", FALSE>>

IsInstance(v, tag) == v[1] = tag

(***************************************************************************)
(* The toolkit's listbox, as Listbox.py drives it.  Tk's listbox manual:    *)
(* "If the listbox is disabled then items may not be inserted or deleted,   *)
(* items are drawn in the -disabledforeground color, and selection cannot   *)
(* be modified and is not shown (though selection information is            *)
(* retained)."  The selection commands parse their index first, so an       *)
(* object that is no index is an error in either state; an int outside the  *)
(* list is no error and selects nothing.                                    *)
(***************************************************************************)
\* The selection commands below do not read the selectmode option: only the
\* toolkit's mouse and key bindings do.
\* tk.Listbox.selection_clear(0, tk.END): a disabled listbox keeps its selection
selection_clear(st, sel) == IF st = "disabled" THEN sel ELSE {}

\* tk.Listbox.selection_set(index) on a listbox of n elements: an index outside
\* the list selects nothing, a disabled listbox keeps its selection
selection_set(st, n, sel, i) ==
    IF st = "disabled" \/ i \notin 0..(n - 1) THEN sel ELSE sel \cup {i}

\* tk.Listbox.curselection()
curselection(sel) == sel

\* the listbox follows its list variable: a shorter list drops the selected
\* indices past its end
ListVariableWritten(n, sel) == sel \cap 0..(n - 1)

(***************************************************************************)
(* Listbox.__init__                                                        *)
(***************************************************************************)
\* the type checks of __init__ (Listbox.py lines 44-65)
InitTypeError(parent, values, select_mode, height, width) ==
    \/ parent # "widget"
    \/ ~IsInstance(values, "list") /\ values # None
    \/ ~IsInstance(select_mode, "str")
    \/ height # "int" /\ height # "None"
    \/ width # "int" /\ height # "None"

Parents == {"widget", "other"}
SelectModes == {<<"str", "browse">>, <<"str", "extended">>}
NotAStr == <<"other", "">>
Sizes == {"int", "None", "other"}

\* Listbox(parent, values, select_mode, height, width).  accepts: whether the
\* toolkit takes a width that is no int (it parses "5", it rejects "wide").
\* When the constructor raises there is no object: nothing of it is kept.
\* The on_select and on_double_click bindings change none of the state here.
init(parent, values, select_mode, height, width, accepts) ==
    /\ phase = "new"
    /\ call = NoCall
    /\ call' = [op |-> "__init__", parent |-> parent, values |-> values,
                select_mode |-> select_mode, height |-> height, width |-> width]
    /\ seeArg' = {}
    /\ IF InitTypeError(parent, values, select_mode, height, width)
       THEN /\ err' = "TypeError"
            /\ UNCHANGED <<phase, selectmode, _values, _variable, selection,
                           _enabled, state, aliased, lastBool>>
       ELSE IF width = "other" /\ ~accepts
       THEN /\ err' = "TclError"
            /\ UNCHANGED <<phase, selectmode, _values, _variable, selection,
                           _enabled, state, aliased, lastBool>>
       ELSE /\ err' = "none"
            /\ phase' = "live"
            /\ _values' = IF values # None THEN StrList(values[2]) ELSE <<>>
            /\ _variable' = TclList(_values')
            /\ selection' = {}
            /\ state' = "normal"
            /\ selectmode' = select_mode[2]
            /\ _enabled' = TRUE
            /\ aliased' = FALSE
            /\ UNCHANGED lastBool
    /\ UNCHANGED kbVars

(***************************************************************************)
(* Listbox.selected                                                        *)
(***************************************************************************)
selected_get ==
    /\ phase = "live"
    /\ call = NoCall
    /\ call' = [op |-> "selected", ret |-> curselection(selection)]
    /\ err' = "none"
    /\ seeArg' = {}
    /\ UNCHANGED <<phase, selectmode, _values, _variable, selection, _enabled, state,
                   aliased, lastBool>>
    /\ UNCHANGED kbVars

\* for index in new_selection: self.selection_set(index)  (Listbox.py lines 108-109)
RECURSIVE SelectEach(_, _, _, _)
SelectEach(st, n, sel, t) ==
    IF t = <<>> THEN [selection |-> sel, err |-> "none"]
    ELSE IF ~IsInstance(Head(t), "int") THEN [selection |-> sel, err |-> "TclError"]
    ELSE SelectEach(st, n, selection_set(st, n, sel, Head(t)[2]), Tail(t))

\* A variant of SelectedSetter that clears the selection before it checks that
\* new_selection is a tuple.
SelectedSetterClearFirst(st, n, sel, new_selection) ==
    IF ~IsInstance(new_selection, "tuple")
    THEN [selection |-> selection_clear(st, sel), err |-> "TypeError"]
    ELSE SelectEach(st, n, selection_clear(st, sel), new_selection[2])

\* the selected setter (Listbox.py lines 102-109)
SelectedSetter(st, n, sel, new_selection) ==
    IF ~IsInstance(new_selection, "tuple")
    THEN [selection |-> sel, err |-> "TypeError"]
    ELSE SelectEach(st, n, selection_clear(st, sel), new_selection[2])

selected_set(new_selection) ==
    /\ phase = "live"
    /\ call = NoCall
    /\ call' = [op |-> "selected=", arg |-> new_selection]
    /\ seeArg' = {}
    /\ LET r == SelectedSetter(state, Len(_variable), selection, new_selection)
       IN  /\ selection' = r.selection
           /\ err' = r.err
    /\ UNCHANGED <<phase, selectmode, _values, _variable, _enabled, state, aliased,
                   lastBool>>
    /\ UNCHANGED kbVars

(***************************************************************************)
(* Listbox.values                                                          *)
(***************************************************************************)
\* the getter returns the list object self._values itself (Listbox.py line 118)
values_get ==
    /\ phase = "live"
    /\ call = NoCall
    /\ call' = [op |-> "values", ret |-> _values]
    /\ err' = "none"
    /\ seeArg' = {}
    /\ aliased' = TRUE
    /\ UNCHANGED <<phase, selectmode, _values, _variable, selection, _enabled, state,
                   lastBool>>
    /\ UNCHANGED kbVars

\* the values setter (Listbox.py lines 128-134): self._values becomes a new
\* list, which shares nothing with the list given or with a list read before
ValuesSetter(vals, var, new_values) ==
    IF ~IsInstance(new_values, "list")
    THEN [values |-> vals, variable |-> var, err |-> "TypeError"]
    ELSE [values |-> StrList(new_values[2]),
          variable |-> TclList(StrList(new_values[2])),
          err |-> "none"]

values_set(new_values) ==
    /\ phase = "live"
    /\ call = NoCall
    /\ call' = [op |-> "values=", arg |-> new_values]
    /\ seeArg' = {}
    /\ LET r == ValuesSetter(_values, _variable, new_values)
       IN  /\ _values' = r.values
           /\ _variable' = r.variable
           /\ err' = r.err
           /\ selection' = IF r.err = "none"
                           THEN ListVariableWritten(Len(r.variable), selection)
                           ELSE selection
           /\ aliased' = IF r.err = "none" THEN FALSE ELSE aliased
    /\ UNCHANGED <<phase, selectmode, _enabled, state, lastBool>>
    /\ UNCHANGED kbVars

\* the caller appends to the list a read of `values` returned
caller_append(item) ==
    /\ phase = "live"
    /\ call = NoCall
    /\ aliased
    /\ Len(_values) < MaxLen
    /\ call' = [op |-> "caller_append", arg |-> item]
    /\ err' = "none"
    /\ seeArg' = {}
    /\ _values' = Append(_values, item)
    /\ UNCHANGED <<phase, selectmode, _variable, selection, _enabled, state, aliased,
                   lastBool>>
    /\ UNCHANGED kbVars

(***************************************************************************)
(* Listbox.scroll_to                                                       *)
(***************************************************************************)
\* the checks of scroll_to (Listbox.py lines 144-153)
ScrollToError(vals, index) ==
    IF ~IsInstance(index, "int") THEN "TypeError"
    ELSE IF index[2] < Len(vals) THEN "IndexError"
    ELSE "none"

scroll_to(index) ==
    /\ phase = "live"
    /\ call = NoCall
    /\ call' = [op |-> "scroll_to", arg |-> index]
    /\ err' = ScrollToError(_values, index)
    /\ seeArg' = IF err' = "none" THEN {index[2]} ELSE {}
    /\ UNCHANGED <<phase, selectmode, _values, _variable, selection, _enabled, state,
                   aliased, lastBool>>
    /\ UNCHANGED kbVars

(***************************************************************************)
(* Listbox.enabled                                                         *)
(***************************************************************************)
enabled_get ==
    /\ phase = "live"
    /\ call = NoCall
    /\ call' = [op |-> "enabled", ret |-> _enabled]
    /\ err' = "none"
    /\ seeArg' = {}
    /\ UNCHANGED <<phase, selectmode, _values, _variable, selection, _enabled, state,
                   aliased, lastBool>>
    /\ UNCHANGED kbVars

\* A variant of EnabledSetter that stores the flag and never configures the
\* widget (no line 182).
EnabledSetterNoConfig(en, st, new_state) ==
    IF ~IsInstance(new_state, "bool")
    THEN [enabled |-> en, state |-> st, err |-> "TypeError"]
    ELSE [enabled |-> new_state[2], state |-> st, err |-> "none"]

\* the enabled setter (Listbox.py lines 176-182)
EnabledSetter(en, st, new_state) ==
    IF ~IsInstance(new_state, "bool")
    THEN [enabled |-> en, state |-> st, err |-> "TypeError"]
    ELSE [enabled |-> new_state[2],
          state |-> IF new_state[2] THEN "normal" ELSE "disabled",
          err |-> "none"]

enabled_set(new_state) ==
    /\ phase = "live"
    /\ call = NoCall
    /\ call' = [op |-> "enabled=", arg |-> new_state]
    /\ seeArg' = {}
    /\ LET r == EnabledSetter(_enabled, state, new_state)
       IN  /\ _enabled' = r.enabled
           /\ state' = r.state
           /\ err' = r.err
    /\ lastBool' = IF IsInstance(new_state, "bool") THEN new_state[2] ELSE lastBool
    /\ UNCHANGED <<phase, selectmode, _values, _variable, selection, aliased>>
    /\ UNCHANGED kbVars

\* the caller has seen how the call ended (its result, or the exception it
\* caught) and goes on to its next call
caller_continues ==
    /\ call # NoCall
    /\ call' = NoCall
    /\ err' = "none"
    /\ seeArg' = {}
    /\ UNCHANGED <<phase, selectmode, _values, _variable, selection, _enabled, state,
                   aliased, lastBool>>
    /\ UNCHANGED kbVars

Init == ListboxInit /\ KeybindIdle

Next ==
    \/ \E parent \in Parents, values \in ListArgs \cup {None, NotAList},
          select_mode \in SelectModes \cup {NotAStr}, height \in Sizes, width \in Sizes,
          accepts \in BOOLEAN :
          init(parent, values, select_mode, height, width, accepts)
    \/ selected_get
    \/ \E new_selection \in TupleArgs \cup {NotATuple} : selected_set(new_selection)
    \/ values_get
    \/ \E new_values \in ListArgs \cup {NotAList} : values_set(new_values)
    \/ \E item \in Items : caller_append(item)
    \/ \E index \in IndexInts \cup {NotAnIndex} : scroll_to(index)
    \/ enabled_get
    \/ \E new_state \in BoolArgs \cup {NotABool} : enabled_set(new_state)
    \/ caller_continues

Spec == Init /\ [][Next]_vars

(***************************************************************************)
(* Properties of Listbox.py, checked under Spec.                           *)
(***************************************************************************)
Positions(l) == 0..(Len(l) - 1)
Setters == {"selected=", "values=", "enabled=", "scroll_to"}

InvalidInitArg(c) ==
    \/ c.parent # "widget"
    \/ c.values[1] \notin {"list", "None"}
    \/ c.select_mode[1] # "str"
    \/ c.height \notin {"int", "None"}
    \/ c.width \notin {"int", "None"}

\* C4: a Listbox constructed with any one argument of an invalid type (parent,
\* values, select_mode, height or width, whatever the others are) ends in
\* TypeError, and no Listbox with a value list or a widget comes to be.
C4_InitRaisesTypeError ==
    call.op = "__init__" /\ InvalidInitArg(call) => err = "TypeError" /\ phase = "new"

\* C5: scroll_to(index) with an int index at or above 0 raises IndexError exactly
\* when index >= len(values); for an index that is a position in the list it raises
\* nothing and passes that index to the toolkit's see().
C5_ScrollToIndexError ==
    call.op = "scroll_to" /\ IsInstance(call.arg, "int") /\ call.arg[2] >= 0 =>
        /\ err = "IndexError" <=> call.arg[2] >= Len(_values)
        /\ call.arg[2] \in Positions(_values) => err = "none" /\ seeArg = {call.arg[2]}

\* C6: after a tuple of valid positions of the value list is assigned to
\* `selected`, in any state of the Listbox, reading `selected` yields exactly
\* those indices.
C6_SelectionRoundTrip ==
    /\ call.op = "selected="
    /\ IsInstance(call.arg, "tuple")
    /\ \A k \in 1..Len(call.arg[2]) :
          IsInstance(call.arg[2][k], "int") /\ call.arg[2][k][2] \in Positions(_values)
    => /\ err = "none"
       /\ curselection(selection) = {call.arg[2][k][2] : k \in 1..Len(call.arg[2])}

\* C7: a list given to the constructor or assigned to `values` reads back as its
\* items' strings in order, and in every state of a constructed Listbox the
\* toolkit's list variable holds the same sequence as the backing value list.
C7_ValuesMirrored ==
    /\ call.op = "values=" /\ err = "none" =>
          /\ Len(_values) = Len(call.arg[2])
          /\ \A k \in 1..Len(_values) : _values[k] = <<"str", call.arg[2][k][2]>>
    /\ call.op = "__init__" /\ err = "none" /\ IsInstance(call.values, "list") =>
          /\ Len(_values) = Len(call.values[2])
          /\ \A k \in 1..Len(_values) : _values[k] = <<"str", call.values[2][k][2]>>
    /\ phase = "live" =>
          /\ Len(_variable) = Len(_values)
          /\ \A k \in 1..Len(_values) : _values[k] = <<"str", _variable[k]>>

\* C9: a constructed Listbox has enabled True; at any time enabled is the last
\* bool assigned to it (True if none), a read of enabled returns it, and the
\* toolkit widget is in state normal exactly when it is True and in state
\* disabled exactly when it is False.
C9_EnabledMirrored ==
    /\ call.op = "__init__" /\ err = "none" => _enabled
    /\ phase = "live" =>
          /\ _enabled = lastBool
          /\ state = "normal" <=> _enabled
          /\ state = "disabled" <=> ~_enabled
    /\ call.op = "enabled" => call.ret = lastBool

C9_Witness ==
    /\ call.op = "enabled=" /\ call.arg = NotABool /\ err = "TypeError"
    /\ ~_enabled /\ ~lastBool /\ state = "disabled"

\* C10 as claimed: a failed assignment to selected, values or enabled, or a failed
\* scroll_to, leaves the value list, the list variable, the selection and the
\* enabled flag as they were.
C10_NoPartialFailure ==
    [][err' # "none" /\ call'.op \in Setters =>
          UNCHANGED <<_values, _variable, selection, _enabled, state>>]_vars

\* the ints of a tuple that come before its first element that is no int
RECURSIVE IndicesBeforeError(_)
IndicesBeforeError(t) ==
    IF t = <<>> \/ ~IsInstance(Head(t), "int") THEN {}
    ELSE {Head(t)[2]} \cup IndicesBeforeError(Tail(t))

\* C10 as amended: a failed assignment to values or enabled, a failed scroll_to
\* and the assignment of a non-tuple to selected leave the value list, the list
\* variable, the selection and the enabled flag as they were.  The assignment to
\* selected of a tuple with an element that is no index fails with the value
\* list, the list variable and the enabled flag as they were, but with the
\* selection of an enabled Listbox replaced by the indices of the tuple that come
\* before that element and are in the list (a disabled one keeps its selection).
C10_FailureEffects ==
    [][err' # "none" /\ call'.op \in Setters =>
          /\ UNCHANGED <<_values, _variable, _enabled, state>>
          /\ IF call'.op = "selected=" /\ IsInstance(call'.arg, "tuple")
             THEN selection' = IF state = "disabled"
                               THEN selection
                               ELSE IndicesBeforeError(call'.arg[2])
                                       \cap Positions(_variable)
             ELSE UNCHANGED selection]_vars

C10_Witness ==
    /\ call.op = "selected=" /\ err = "TclError"
    /\ call.arg = <<"tuple", <<<<"int", 1>>, NotAnIndex>>>>
    /\ state = "normal"
    /\ selection = {1}

(***************************************************************************)
(* Properties of Keybind.py, checked under KeybindSpec.                    *)
(***************************************************************************)
EventCalled == fn = "generate_event_sequence" /\ illTyped = "none"
AccelCalled == fn = "generate_accelerator_sequence" /\ illTyped = "none"
OnlyCtrlCmd == ctrl_cmd /\ ~ctrl_ctrl /\ ~shift_shift /\ ~alt_option

\* C1: whenever either generator returns a string for a non-empty letter, the
\* modifiers are named by platform: on Aqua ctrl_cmd shows as "Command" and
\* alt_option as "Option" (never "Alt", and "Control" only for ctrl_ctrl); elsewhere
\* ctrl_cmd shows as "Control" and alt_option as "Alt" (never "Command" or
\* "Option").  With ctrl_cmd alone and letter "s" the four results are
\* "<Control-s>", "Control+S", "<Command-s>" and "Command-S".
C1_ModifierNamesByPlatform ==
    /\ (EventCalled \/ AccelCalled) /\ result.kind = "ok" =>
          IF aqua
          THEN /\ ctrl_cmd <=> Contains(StrCommand, result.value)
               /\ alt_option <=> Contains(StrOption, result.value)
               /\ ctrl_ctrl <=> Contains(StrControl, result.value)
               /\ ~Contains(StrAlt, result.value)
          ELSE /\ ctrl_cmd => Contains(StrControl, result.value)
               /\ alt_option <=> Contains(StrAlt, result.value)
               /\ ~Contains(StrCommand, result.value)
               /\ ~Contains(StrOption, result.value)
    /\ (EventCalled \/ AccelCalled) /\ Len(letter) > 0
          /\ ~(AccelCalled /\ ~aqua /\ ctrl_cmd /\ ctrl_ctrl) => result.kind = "ok"
    /\ EventCalled /\ OnlyCtrlCmd /\ letter = <<"s">> =>
          result = Ok(IF aqua THEN <<"<">> \o StrCommand \o <<"-", "s", ">">>
                              ELSE <<"<">> \o StrControl \o <<"-", "s", ">">>)
    /\ AccelCalled /\ OnlyCtrlCmd /\ letter = <<"s">> =>
          result = Ok(IF aqua THEN StrCommand \o <<"-", "S">>
                              ELSE StrControl \o <<"+", "S">>)

C1_Witness ==
    /\ AccelCalled /\ aqua /\ ctrl_cmd /\ alt_option /\ ~ctrl_ctrl /\ ~shift_shift
    /\ letter = <<"s">>
    /\ result = Ok(StrCommand \o Hyphen \o StrOption \o Hyphen \o <<"S">>)

\* C2: generate_accelerator_sequence, given well-typed arguments and a non-empty
\* letter, raises ValueError exactly when ctrl_cmd and ctrl_ctrl are both True off
\* Aqua; otherwise it returns a string, which on Aqua with both flags True holds
\* both "Command" and "Control".
C2_AcceleratorValueError ==
    AccelCalled /\ Len(letter) > 0 =>
        /\ result.kind = "ValueError" <=> (ctrl_cmd /\ ctrl_ctrl /\ ~aqua)
        /\ result.kind \in {"ValueError", "ok"}
        /\ aqua /\ ctrl_cmd /\ ctrl_ctrl =>
              /\ result.kind = "ok"
              /\ Contains(StrCommand, result.value)
              /\ Contains(StrControl, result.value)

C2_Witness ==
    /\ AccelCalled /\ ~aqua /\ ctrl_cmd /\ ctrl_ctrl /\ Len(letter) > 0
    /\ result.kind = "ValueError"

\* C3 as claimed: generate_event_sequence raises an error when ctrl_cmd and
\* ctrl_ctrl are both True off Aqua, instead of returning a binding sequence.
C3_EventSequenceRaises ==
    EventCalled /\ ctrl_cmd /\ ctrl_ctrl /\ ~aqua /\ Len(letter) > 0 =>
        result.kind \notin {"ok", "none"}

\* C3 as amended: with ctrl_cmd and ctrl_ctrl both True off Aqua (and a non-empty
\* letter), generate_event_sequence raises nothing and returns a binding sequence
\* that names the "Control-" modifier exactly once.
C3_EventSequenceDedups ==
    EventCalled /\ ctrl_cmd /\ ctrl_ctrl /\ ~aqua /\ Len(letter) > 0 =>
        /\ result.kind = "ok"
        /\ CountOcc(StrControl \o Hyphen, result.value) = 1

C3_Witness ==
    /\ EventCalled /\ ctrl_cmd /\ ctrl_ctrl /\ ~aqua /\ ~shift_shift /\ ~alt_option
    /\ letter = <<"s">>
    /\ result = Ok(<<"<">> \o StrControl \o <<"-", "s", ">">>)

\* the modifier names the accelerator is documented to hold, in the order the
\* code appends them, each followed by the separator
ModifierNames(onAqua, cc, ctl, sh, alt) ==
    LET sep == IF onAqua THEN <<"-">> ELSE <<"+">>
    IN  (IF cc THEN (IF onAqua THEN StrCommand ELSE StrControl) \o sep ELSE <<>>)
        \o (IF ctl THEN StrControl \o sep ELSE <<>>)
        \o (IF sh THEN StrShift \o sep ELSE <<>>)
        \o (IF alt THEN (IF onAqua THEN StrOption ELSE StrAlt) \o sep ELSE <<>>)

\* C8: every string generate_accelerator_sequence returns is the modifier names,
\* joined by "-" on Aqua and "+" elsewhere, followed by the uppercased first
\* character of letter, which is therefore the result's last character.
C8_AcceleratorFormat ==
    AccelCalled /\ result.kind = "ok" =>
        /\ result.value = ModifierNames(aqua, ctrl_cmd, ctrl_ctrl, shift_shift, alt_option)
                            \o <<Upper(letter[1])>>
        /\ Last(result.value) = Upper(letter[1])
====
